---- MODULE Spec2Model ----
(***************************************************************************)
(* A model of the stats-traits crate: the plain statistics trait `Stats`   *)
(* (src/src/stats.rs, an earlier copy of which is src/src/lib.rs) and the  *)
(* frequency-weighted trait `FrequencyStats` (src/src/freq.rs), both       *)
(* instantiated at a signed two's-complement integer element type.         *)
(*                                                                         *)
(* The element type T is generic in the source.  Here it is a signed       *)
(* integer of ItemBits bits, so that "the count does not fit in T" (128    *)
(* elements of i8 in stats.rs:258) happens on short collections.  usize is *)
(* modelled by the naturals: the counts of the model stay far below        *)
(* usize::MAX, so the overflow of a usize sum is outside its bounds.       *)
(*                                                                         *)
(* Arithmetic of the element type (+, -, * of a primitive integer) aborts  *)
(* with a panic on overflow when the build has overflow checks and wraps   *)
(* modulo 2^ItemBits when it has not.  The build is the variable           *)
(* overflow_checks, chosen in Init.                                        *)
(***************************************************************************)
EXTENDS Integers, Sequences, FiniteSets, TLC

(* ---------------------------- bounds ----------------------------------- *)

\* width in bits of the element type T (i8 has 8)
ItemBits == 3
\* longest plain collection with arbitrary elements
MaxLen == 3
\* occurrence counts of the inputs are drawn from 0 .. MaxFreq, and ItemMax + 1
MaxFreq == 2
\* most pairs in a frequency collection
MaxPairs == 2
\* the finite floating-point operands of MinMax are -MaxFloat .. MaxFloat
MaxFloat == 1
\* longest collection on which sequences of calls are replayed
ReplayLen == 1

(* ------------------------ the element type ----------------------------- *)

Modulus == 2 ^ ItemBits
ItemMin == -(2 ^ (ItemBits - 1))
ItemMax == 2 ^ (ItemBits - 1) - 1
Item == ItemMin .. ItemMax

Abs(n) == IF n < 0 THEN -n ELSE n

\* two's-complement wrap of a mathematical integer into T
Wrap(n) == ((n - ItemMin) % Modulus) + ItemMin

\* Rust's integer `/`: the quotient truncated toward zero (d # 0)
TruncDiv(n, d) ==
    LET q == Abs(n) \div Abs(d)
    IN  IF (n < 0) # (d < 0) THEN -q ELSE q

\* floor of the square root of n >= 0: `f64::sqrt` followed by the
\* truncating conversion back to an integer
Isqrt(n) == CHOOSE r \in 0 .. n : r * r <= n /\ (r + 1) * (r + 1) > n

(* ------------------------- result values ------------------------------- *)
\* Every outcome of a call is one record shape:
\*   Ret(v)   a plain return value (usize or T)
\*   Some(v), None        Option<T>
\*   Ok(v), Err...        Result<T, StatsError>
\*   Panic(m)             the call unwound with message m

Ret(v)  == [tag |-> "Ret",  val |-> v, err |-> "-", from |-> "-", to |-> "-"]
Some(v) == [tag |-> "Some", val |-> v, err |-> "-", from |-> "-", to |-> "-"]
None    == [tag |-> "None", val |-> 0, err |-> "-", from |-> "-", to |-> "-"]
Ok(v)   == [tag |-> "Ok",   val |-> v, err |-> "-", from |-> "-", to |-> "-"]
Panic(m) == [tag |-> "Panic", val |-> 0, err |-> m, from |-> "-", to |-> "-"]

EmptyCollection ==
    [tag |-> "Err", val |-> 0, err |-> "EmptyCollection", from |-> "-", to |-> "-"]
CouldNotConvert(f, t) ==
    [tag |-> "Err", val |-> 0, err |-> "CouldNotConvert", from |-> f, to |-> t]

NoResult == [tag |-> "-", val |-> 0, err |-> "-", from |-> "-", to |-> "-"]

IsValue(r) == r.tag \in {"Ret", "Some", "Ok"}
Failed(r) == ~IsValue(r)

(* ---------------------------- state ------------------------------------ *)

VARIABLES
    coll,             \* the caller's collection: [kind, items]
    overflow_checks,  \* TRUE: the build panics on integer overflow
    op,               \* the operation called last
    res,              \* what it returned
    first             \* history: the first call made, [op, res, phase]

vars == <<coll, overflow_checks, op, res, first>>

(* ------------------- arithmetic of the element type -------------------- *)

MsgAdd == "attempt to add with overflow"
MsgSub == "attempt to subtract with overflow"
MsgMul == "attempt to multiply with overflow"
MsgDivZero == "attempt to divide by zero"
MsgDivOvf == "attempt to divide with overflow"
MsgCount == "Could not convert usize to Self::Item"
MsgUnwrap == "called Option::unwrap on a None value"

Arith(e, msg) ==
    IF e \in Item THEN Ret(e)
    ELSE IF overflow_checks THEN Panic(msg)
    ELSE Ret(Wrap(e))

ItemAdd(a, b) == Arith(a + b, MsgAdd)
ItemSub(a, b) == Arith(a - b, MsgSub)
ItemMul(a, b) == Arith(a * b, MsgMul)

\* `/` of a primitive integer panics on a zero divisor and on MIN / -1 in
\* every build
ItemDiv(a, b) ==
    IF b = 0 THEN Panic(MsgDivZero)
    ELSE IF a = ItemMin /\ b = -1 THEN Panic(MsgDivOvf)
    ELSE Ret(TruncDiv(a, b))

\* FromPrimitive::from_usize for a signed integer T
from_usize(n) == IF n <= ItemMax THEN Some(n) ELSE None

(* ------------------------------ inputs --------------------------------- *)

\* the element values of the inputs: zero, its neighbours and T's extremes
Vals == {ItemMin, -1, 0, 1, ItemMax}
\* the occurrence counts: the small ones and the first that T cannot hold
Freqs == (0 .. MaxFreq) \cup {ItemMax + 1}

SeqsUpTo(S, n) == UNION {[1 .. k -> S] : k \in 0 .. n}

\* Vec::from_iter(std::iter::repeat(v).take(n)), the collection of
\* test_panicking_count: the only input long enough to overflow T's count
Repeat(v, n) == [i \in 1 .. n |-> v]

PlainInputs ==
    SeqsUpTo(Vals, MaxLen) \cup {Repeat(v, n) : v \in Vals, n \in 0 .. ItemMax + 1}

\* a frequency pair is (freq, val), as `type Frequency<T> = (usize, T)`
Frequency == Freqs \X Vals
FreqInputs == SeqsUpTo(Frequency, MaxPairs)

Inputs ==
    {[kind |-> "Stats", items |-> xs] : xs \in PlainInputs}
        \cup {[kind |-> "FrequencyStats", items |-> fs] : fs \in FreqInputs}

(* ----------------------- Stats (src/src/stats.rs) ---------------------- *)

\* Iterator::sum::<T>(): the left fold of + from zero
RECURSIVE SumFrom(_, _, _)
SumFrom(xs, i, acc) ==
    IF i > Len(xs) THEN Ret(acc)
    ELSE LET r == ItemAdd(acc, xs[i])
         IN  IF r.tag = "Panic" THEN r ELSE SumFrom(xs, i + 1, r.val)

Stats_sum(xs) == SumFrom(xs, 1, 0)

Stats_count(xs) == Ret(Len(xs))

Stats_panicking_count_wraps(xs) == Ret(Wrap(Stats_count(xs).val))

Stats_panicking_count(xs) ==
    LET c == from_usize(Stats_count(xs).val)
    IN  IF c.tag = "Some" THEN Ret(c.val) ELSE Panic(MsgCount)

\* self.sum() / self.panicking_count(): the operands left to right, then `/`
Stats_mean(xs) ==
    LET s == Stats_sum(xs)
        c == Stats_panicking_count(xs)
    IN  IF s.tag = "Panic" THEN s
        ELSE IF c.tag = "Panic" THEN c
        ELSE ItemDiv(s.val, c.val)

Stats_checked_mean_unguarded(xs) ==
    IF Stats_count(xs).val = 0 THEN None
    ELSE LET m == Stats_mean(xs)
         IN  IF m.tag = "Panic" THEN m ELSE Some(m.val)

Stats_checked_mean(xs) ==
    IF Stats_count(xs).val = 0 \/ from_usize(Stats_count(xs).val).tag = "None"
    THEN None
    ELSE LET m == Stats_mean(xs)
         IN  IF m.tag = "Panic" THEN m ELSE Some(m.val)

\* .map(|x| (x - mean) * (x - mean)).sum::<T>(): the map is lazy, so each
\* element is subtracted, squared and added before the next one is read
RECURSIVE SqDevFrom(_, _, _, _)
SqDevFrom(xs, mean, i, acc) ==
    IF i > Len(xs) THEN Ret(acc)
    ELSE LET d == ItemSub(xs[i], mean)
             q == ItemMul(d.val, d.val)
             r == ItemAdd(acc, q.val)
         IN  IF d.tag = "Panic" THEN d
             ELSE IF q.tag = "Panic" THEN q
             ELSE IF r.tag = "Panic" THEN r
             ELSE SqDevFrom(xs, mean, i + 1, r.val)

Stats_variance(xs) ==
    LET mean == Stats_mean(xs)
        s == SqDevFrom(xs, mean.val, 1, 0)
        c == Stats_panicking_count(xs)
    IN  IF mean.tag = "Panic" THEN mean
        ELSE IF s.tag = "Panic" THEN s
        ELSE IF c.tag = "Panic" THEN c
        ELSE ItemDiv(s.val, c.val)

Stats_checked_variance(xs) ==
    IF Stats_count(xs).val = 0 \/ from_usize(Stats_count(xs).val).tag = "None"
    THEN None
    ELSE LET v == Stats_variance(xs)
         IN  IF v.tag = "Panic" THEN v ELSE Some(v.val)

\* T::from_f64(variance.to_f64().sqrt()).unwrap(): to_f64 of an integer is
\* always Some; the square root of a negative number is NaN, which from_f64
\* turns into None
Stats_std_dev(xs) ==
    LET v == Stats_variance(xs)
    IN  IF v.tag = "Panic" THEN v
        ELSE IF v.val < 0 THEN Panic(MsgUnwrap)
        ELSE Ret(Isqrt(v.val))

(* ------------------- MinMax (src/src/helpers.rs) ----------------------- *)

\* impl_min_max_using_ord: <T as Ord>::min and ::max of the integer types
MinMax_min(a, b) == IF a <= b THEN a ELSE b
MinMax_max(a, b) == IF b >= a THEN b ELSE a

\* A floating-point value (f32, f64) is [k, v]: a NaN with payload v, a
\* finite number v, the negative zero, or an infinity of sign v.
NaNs == {[k |-> "nan", v |-> p] : p \in {0, 1}}
Floats ==
    NaNs \cup {[k |-> "num", v |-> n] : n \in (-MaxFloat) .. MaxFloat}
         \cup {[k |-> "negzero", v |-> 0]}
         \cup {[k |-> "inf", v |-> n] : n \in {-1, 1}}
is_nan(f) == f.k = "nan"
\* the place of a non-NaN value in the IEEE order, where -0.0 == 0.0
Rank(f) == IF f.k = "inf" THEN f.v * (MaxFloat + 1) ELSE f.v

\* the IEEE `<`: false whenever an operand is NaN
lt(x, y) == ~is_nan(x) /\ ~is_nan(y) /\ Rank(x) < Rank(y)

f32_max_by_lt(self, other) == IF lt(other, self) THEN {self} ELSE {other}

\* impl_min_max_using_assoc_func: <f32>::min(self, other), the inherent
\* method (IEEE minNum): a NaN operand loses to a number; of two NaNs, and of
\* two equal operands, the build may return either.  The set of the values
\* the call can return.
f32_min(self, other) ==
    IF is_nan(self) /\ is_nan(other) THEN {self, other}
    ELSE IF is_nan(self) THEN {other}
    ELSE IF is_nan(other) THEN {self}
    ELSE IF Rank(self) < Rank(other) THEN {self}
    ELSE IF Rank(other) < Rank(self) THEN {other}
    ELSE {self, other}

f32_max(self, other) ==
    IF is_nan(self) /\ is_nan(other) THEN {self, other}
    ELSE IF is_nan(self) THEN {other}
    ELSE IF is_nan(other) THEN {self}
    ELSE IF Rank(self) > Rank(other) THEN {self}
    ELSE IF Rank(other) > Rank(self) THEN {other}
    ELSE {self, other}

(* ------------------ FrequencyStats (src/src/freq.rs) ------------------- *)
\* a pair p of the collection is <<freq, val>>

Freq(p) == p[1]
Val(p) == p[2]

\* .map(|(freq, _)| freq).sum(): the usize sum of the occurrence counts
RECURSIVE WeightFrom(_, _, _)
WeightFrom(fs, i, acc) ==
    IF i > Len(fs) THEN acc ELSE WeightFrom(fs, i + 1, acc + Freq(fs[i]))

FrequencyStats_count_pairs(fs) == Ret(Len(fs))

FrequencyStats_count(fs) == Ret(WeightFrom(fs, 1, 0))

FrequencyStats_non_zero_count_of_pairs(fs) ==
    IF Len(fs) = 0 THEN EmptyCollection ELSE Ok(FrequencyStats_count(fs).val)

FrequencyStats_non_zero_count(fs) ==
    LET count == FrequencyStats_count(fs).val
    IN  IF count = 0 THEN EmptyCollection ELSE Ok(count)

FrequencyStats_non_zero_count_into_item_cast(fs) ==
    LET n == FrequencyStats_non_zero_count(fs)
    IN  IF n.tag = "Err" THEN n ELSE Ok(Wrap(n.val))

\* T::from_usize(self.non_zero_count()?).ok_or(CouldNotConvert {..})
FrequencyStats_non_zero_count_into_item(fs) ==
    LET n == FrequencyStats_non_zero_count(fs)
        c == from_usize(n.val)
    IN  IF n.tag = "Err" THEN n
        ELSE IF c.tag = "None" THEN CouldNotConvert("Usize", "Item")
        ELSE Ok(c.val)

\* one turn of the loop of sum: sum = sum + val * T::from_usize(freq).ok_or(..)?
\* The conversion is tried, and can return, before `*` and `+` are applied.
SumStep_unweighted(sum, p) == ItemAdd(sum, Val(p))

SumStep(sum, p) ==
    LET c == from_usize(Freq(p))
        m == ItemMul(Val(p), c.val)
    IN  IF c.tag = "None" THEN CouldNotConvert("Usize", "Item")
        ELSE IF m.tag = "Panic" THEN m
        ELSE ItemAdd(sum, m.val)

RECURSIVE FreqSumFrom(_, _, _)
FreqSumFrom(fs, i, sum) ==
    IF i > Len(fs) THEN Ok(sum)
    ELSE LET r == SumStep(sum, fs[i])
         IN  IF r.tag # "Ret" THEN r ELSE FreqSumFrom(fs, i + 1, r.val)

FrequencyStats_sum(fs) == FreqSumFrom(fs, 1, 0)

FrequencyStats_mean_floor(fs) ==
    LET s == FrequencyStats_sum(fs)
        n == FrequencyStats_non_zero_count_into_item(fs)
    IN  IF s.tag # "Ok" THEN s
        ELSE IF n.tag # "Ok" THEN n
        ELSE Ok(s.val \div n.val)

\* Ok(self.sum()? / self.non_zero_count_into_item()?)
FrequencyStats_mean(fs) ==
    LET s == FrequencyStats_sum(fs)
        n == FrequencyStats_non_zero_count_into_item(fs)
        q == ItemDiv(s.val, n.val)
    IN  IF s.tag # "Ok" THEN s
        ELSE IF n.tag # "Ok" THEN n
        ELSE IF q.tag = "Panic" THEN q
        ELSE Ok(q.val)

VarStep_unweighted(sum, mean, p) ==
    LET diff == ItemSub(Val(p), mean)
        sq == ItemMul(diff.val, diff.val)
    IN  IF diff.tag = "Panic" THEN diff
        ELSE IF sq.tag = "Panic" THEN sq
        ELSE ItemAdd(sum, sq.val)

\* one turn of the loop of variance:
\*   let diff = val - mean;
\*   sum = sum + diff * diff * T::from_usize(freq).ok_or(..)?
\* diff * diff is evaluated before the conversion is tried.
VarStep(sum, mean, p) ==
    LET diff == ItemSub(Val(p), mean)
        sq == ItemMul(diff.val, diff.val)
        c == from_usize(Freq(p))
        m == ItemMul(sq.val, c.val)
    IN  IF diff.tag = "Panic" THEN diff
        ELSE IF sq.tag = "Panic" THEN sq
        ELSE IF c.tag = "None" THEN CouldNotConvert("Usize", "Item")
        ELSE IF m.tag = "Panic" THEN m
        ELSE ItemAdd(sum, m.val)

RECURSIVE FreqSqDevFrom(_, _, _, _)
FreqSqDevFrom(fs, mean, i, sum) ==
    IF i > Len(fs) THEN Ok(sum)
    ELSE LET r == VarStep(sum, mean, fs[i])
         IN  IF r.tag # "Ret" THEN r ELSE FreqSqDevFrom(fs, mean, i + 1, r.val)

VarDivisor_sample(fs) ==
    LET n == FrequencyStats_non_zero_count_into_item(fs)
    IN  IF n.tag # "Ok" THEN n ELSE Ok(n.val - 1)

\* the divisor of variance: self.non_zero_count_into_item()?
VarDivisor(fs) == FrequencyStats_non_zero_count_into_item(fs)

FrequencyStats_variance(fs) ==
    LET mean == FrequencyStats_mean(fs)
        sum == FreqSqDevFrom(fs, mean.val, 1, 0)
        n == VarDivisor(fs)
        q == ItemDiv(sum.val, n.val)
    IN  IF mean.tag # "Ok" THEN mean
        ELSE IF sum.tag # "Ok" THEN sum
        ELSE IF n.tag # "Ok" THEN n
        ELSE IF q.tag = "Panic" THEN q
        ELSE Ok(q.val)

\* T::from_f64(self.variance()?.to_f64().ok_or(..)?.sqrt()).ok_or(..):
\* to_f64 of an integer is always Some; the square root of a negative
\* number is NaN, which from_f64 turns into None
FrequencyStats_std_dev(fs) ==
    LET v == FrequencyStats_variance(fs)
    IN  IF v.tag # "Ok" THEN v
        ELSE IF v.val < 0 THEN CouldNotConvert("F64", "Item")
        ELSE Ok(Isqrt(v.val))

\* .map(|(_, val)| val).reduce(f).ok_or(EmptyCollection)
RECURSIVE ReduceMinFrom(_, _, _)
ReduceMinFrom(fs, i, acc) ==
    IF i > Len(fs) THEN acc
    ELSE ReduceMinFrom(fs, i + 1, MinMax_min(acc, Val(fs[i])))

RECURSIVE ReduceMaxFrom(_, _, _)
ReduceMaxFrom(fs, i, acc) ==
    IF i > Len(fs) THEN acc
    ELSE ReduceMaxFrom(fs, i + 1, MinMax_max(acc, Val(fs[i])))

\* the pairs of fs whose occurrence count is not zero, in order
RECURSIVE Occurring(_)
Occurring(fs) ==
    IF fs = <<>> THEN <<>>
    ELSE IF Freq(Head(fs)) = 0 THEN Occurring(Tail(fs))
    ELSE <<Head(fs)>> \o Occurring(Tail(fs))

FrequencyStats_min_of_occurring(fs) ==
    LET os == Occurring(fs)
    IN  IF os = <<>> THEN EmptyCollection
        ELSE Ok(ReduceMinFrom(os, 2, Val(os[1])))

FrequencyStats_min(fs) ==
    IF Len(fs) = 0 THEN EmptyCollection
    ELSE Ok(ReduceMinFrom(fs, 2, Val(fs[1])))

FrequencyStats_max(fs) ==
    IF Len(fs) = 0 THEN EmptyCollection
    ELSE Ok(ReduceMaxFrom(fs, 2, Val(fs[1])))

\* Ok(self.max()? - self.min()?)
FrequencyStats_range(fs) ==
    LET hi == FrequencyStats_max(fs)
        lo == FrequencyStats_min(fs)
        d == ItemSub(hi.val, lo.val)
    IN  IF hi.tag # "Ok" THEN hi
        ELSE IF lo.tag # "Ok" THEN lo
        ELSE IF d.tag = "Panic" THEN d
        ELSE Ok(d.val)

\* one turn of the loop of mode: if freq >= mode.0 { mode = (freq, val) }
ModeStep_first_wins(mode, p) == IF Freq(p) > Freq(mode) THEN p ELSE mode

ModeStep(mode, p) == IF Freq(p) >= Freq(mode) THEN p ELSE mode

RECURSIVE ModeFrom(_, _, _)
ModeFrom(fs, i, mode) ==
    IF i > Len(fs) THEN mode ELSE ModeFrom(fs, i + 1, ModeStep(mode, fs[i]))

\* let mut mode = (0, T::zero()); self.non_zero_count()?; the loop; Ok(mode.1)
FrequencyStats_mode(fs) ==
    LET n == FrequencyStats_non_zero_count(fs)
    IN  IF n.tag = "Err" THEN n
        ELSE Ok(Val(ModeFrom(fs, 1, <<0, 0>>)))

(* ----------------------------- behaviour ------------------------------- *)

\* the two operands of a call of MinMax::min or MinMax::max, at an integer
\* and at a floating-point type
MinMaxInputs ==
    {[kind |-> "MinMax_int", items |-> <<a, b>>] : a \in Vals, b \in Vals}
        \cup {[kind |-> "MinMax_f32", items |-> <<a, b>>] : a \in Floats, b \in Floats}

\* The history variable first records nothing in phase "off".  Otherwise
\* it keeps the first call and its result, and its phase tells how far a
\* replay has come: "-" no call yet, "once" only the first operation has
\* been called, "other" another operation has been called since, "again" the
\* first operation has been called once more after that.
NoHistory == [op |-> "-", res |-> NoResult, phase |-> "off"]
EmptyHistory == [op |-> "-", res |-> NoResult, phase |-> "-"]

Remember(o, r) ==
    IF first.phase = "off" THEN first
    ELSE IF first.phase = "-" THEN [op |-> o, res |-> r, phase |-> "once"]
    ELSE IF first.phase = "once"
         THEN [first EXCEPT !.phase = IF o = first.op THEN "once" ELSE "other"]
    ELSE IF first.phase = "other"
         THEN [first EXCEPT !.phase = IF o = first.op THEN "again" ELSE "other"]
    ELSE first

Init ==
    /\ coll \in Inputs \cup MinMaxInputs
    /\ overflow_checks \in BOOLEAN
    /\ op = "-"
    /\ res = NoResult
    /\ first = NoHistory

\* the collections on which sequences of calls are replayed
ReplayInputs ==
    {[kind |-> "Stats", items |-> xs] :
        xs \in SeqsUpTo(Vals, ReplayLen)
                \cup {Repeat(v, n) : v \in Vals, n \in 0 .. ItemMax + 1}}
        \cup {[kind |-> "FrequencyStats", items |-> fs] :
                 fs \in SeqsUpTo(Frequency, ReplayLen)}

InitReplay ==
    /\ coll \in ReplayInputs
    /\ overflow_checks \in BOOLEAN
    /\ op = "-"
    /\ res = NoResult
    /\ first = EmptyHistory

Ops ==
    {"Stats::sum", "Stats::count", "Stats::panicking_count", "Stats::mean",
     "Stats::checked_mean", "Stats::variance", "Stats::checked_variance",
     "Stats::std_dev",
     "FrequencyStats::count", "FrequencyStats::non_zero_count",
     "FrequencyStats::non_zero_count_into_item", "FrequencyStats::sum",
     "FrequencyStats::mean", "FrequencyStats::variance",
     "FrequencyStats::std_dev", "FrequencyStats::min", "FrequencyStats::max",
     "FrequencyStats::range", "FrequencyStats::mode",
     "MinMax::min", "MinMax::max"}

\* the state: a collection of one of the two traits, the build, and the last
\* call with its outcome
TypeOK ==
    /\ coll \in Inputs \cup MinMaxInputs
    /\ overflow_checks \in BOOLEAN
    /\ op \in Ops \cup {"-"}
    /\ res.tag \in {"-", "Ret", "Some", "None", "Ok", "Err", "Panic"}
    /\ IF coll.kind = "MinMax_f32" /\ op # "-"
       THEN res.val \in Floats
       ELSE res.val \in Int
    /\ op = "-" <=> res = NoResult
    /\ first.op \in Ops \cup {"-"}
    /\ first.phase \in {"off", "-", "once", "other", "again"}
    /\ first.phase \in {"off", "-"} => first.res = NoResult

\* One action per method.  Every method takes &self and iterates a clone
\* of the collection, so the collection and the build are left alone.

CallStats_sum ==
    /\ coll.kind = "Stats"
    /\ op' = "Stats::sum"
    /\ res' = Stats_sum(coll.items)
    /\ UNCHANGED <<coll, overflow_checks>>
    /\ first' = Remember(op', res')

CallStats_count ==
    /\ coll.kind = "Stats"
    /\ op' = "Stats::count"
    /\ res' = Stats_count(coll.items)
    /\ UNCHANGED <<coll, overflow_checks>>
    /\ first' = Remember(op', res')

CallStats_panicking_count ==
    /\ coll.kind = "Stats"
    /\ op' = "Stats::panicking_count"
    /\ res' = Stats_panicking_count(coll.items)
    /\ UNCHANGED <<coll, overflow_checks>>
    /\ first' = Remember(op', res')

CallStats_mean ==
    /\ coll.kind = "Stats"
    /\ op' = "Stats::mean"
    /\ res' = Stats_mean(coll.items)
    /\ UNCHANGED <<coll, overflow_checks>>
    /\ first' = Remember(op', res')

CallStats_checked_mean ==
    /\ coll.kind = "Stats"
    /\ op' = "Stats::checked_mean"
    /\ res' = Stats_checked_mean(coll.items)
    /\ UNCHANGED <<coll, overflow_checks>>
    /\ first' = Remember(op', res')

CallStats_variance ==
    /\ coll.kind = "Stats"
    /\ op' = "Stats::variance"
    /\ res' = Stats_variance(coll.items)
    /\ UNCHANGED <<coll, overflow_checks>>
    /\ first' = Remember(op', res')

CallStats_checked_variance ==
    /\ coll.kind = "Stats"
    /\ op' = "Stats::checked_variance"
    /\ res' = Stats_checked_variance(coll.items)
    /\ UNCHANGED <<coll, overflow_checks>>
    /\ first' = Remember(op', res')

CallStats_std_dev ==
    /\ coll.kind = "Stats"
    /\ op' = "Stats::std_dev"
    /\ res' = Stats_std_dev(coll.items)
    /\ UNCHANGED <<coll, overflow_checks>>
    /\ first' = Remember(op', res')

CallFrequencyStats_count_draining ==
    /\ coll.kind = "FrequencyStats"
    /\ op' = "FrequencyStats::count"
    /\ res' = FrequencyStats_count(coll.items)
    /\ coll' = [coll EXCEPT !.items = <<>>]
    /\ UNCHANGED overflow_checks
    /\ first' = Remember(op', res')

CallFrequencyStats_count ==
    /\ coll.kind = "FrequencyStats"
    /\ op' = "FrequencyStats::count"
    /\ res' = FrequencyStats_count(coll.items)
    /\ UNCHANGED <<coll, overflow_checks>>
    /\ first' = Remember(op', res')

CallFrequencyStats_non_zero_count ==
    /\ coll.kind = "FrequencyStats"
    /\ op' = "FrequencyStats::non_zero_count"
    /\ res' = FrequencyStats_non_zero_count(coll.items)
    /\ UNCHANGED <<coll, overflow_checks>>
    /\ first' = Remember(op', res')

CallFrequencyStats_non_zero_count_into_item ==
    /\ coll.kind = "FrequencyStats"
    /\ op' = "FrequencyStats::non_zero_count_into_item"
    /\ res' = FrequencyStats_non_zero_count_into_item(coll.items)
    /\ UNCHANGED <<coll, overflow_checks>>
    /\ first' = Remember(op', res')

CallFrequencyStats_sum ==
    /\ coll.kind = "FrequencyStats"
    /\ op' = "FrequencyStats::sum"
    /\ res' = FrequencyStats_sum(coll.items)
    /\ UNCHANGED <<coll, overflow_checks>>
    /\ first' = Remember(op', res')

CallFrequencyStats_mean ==
    /\ coll.kind = "FrequencyStats"
    /\ op' = "FrequencyStats::mean"
    /\ res' = FrequencyStats_mean(coll.items)
    /\ UNCHANGED <<coll, overflow_checks>>
    /\ first' = Remember(op', res')

CallFrequencyStats_variance ==
    /\ coll.kind = "FrequencyStats"
    /\ op' = "FrequencyStats::variance"
    /\ res' = FrequencyStats_variance(coll.items)
    /\ UNCHANGED <<coll, overflow_checks>>
    /\ first' = Remember(op', res')

CallFrequencyStats_std_dev ==
    /\ coll.kind = "FrequencyStats"
    /\ op' = "FrequencyStats::std_dev"
    /\ res' = FrequencyStats_std_dev(coll.items)
    /\ UNCHANGED <<coll, overflow_checks>>
    /\ first' = Remember(op', res')

CallFrequencyStats_min ==
    /\ coll.kind = "FrequencyStats"
    /\ op' = "FrequencyStats::min"
    /\ res' = FrequencyStats_min(coll.items)
    /\ UNCHANGED <<coll, overflow_checks>>
    /\ first' = Remember(op', res')

CallFrequencyStats_max ==
    /\ coll.kind = "FrequencyStats"
    /\ op' = "FrequencyStats::max"
    /\ res' = FrequencyStats_max(coll.items)
    /\ UNCHANGED <<coll, overflow_checks>>
    /\ first' = Remember(op', res')

CallFrequencyStats_range ==
    /\ coll.kind = "FrequencyStats"
    /\ op' = "FrequencyStats::range"
    /\ res' = FrequencyStats_range(coll.items)
    /\ UNCHANGED <<coll, overflow_checks>>
    /\ first' = Remember(op', res')

CallFrequencyStats_mode ==
    /\ coll.kind = "FrequencyStats"
    /\ op' = "FrequencyStats::mode"
    /\ res' = FrequencyStats_mode(coll.items)
    /\ UNCHANGED <<coll, overflow_checks>>
    /\ first' = Remember(op', res')

CallMinMax_min ==
    /\ coll.kind = "MinMax_int"
    /\ op' = "MinMax::min"
    /\ res' = Ret(MinMax_min(coll.items[1], coll.items[2]))
    /\ UNCHANGED <<coll, overflow_checks>>
    /\ first' = Remember(op', res')

CallMinMax_max ==
    /\ coll.kind = "MinMax_int"
    /\ op' = "MinMax::max"
    /\ res' = Ret(MinMax_max(coll.items[1], coll.items[2]))
    /\ UNCHANGED <<coll, overflow_checks>>
    /\ first' = Remember(op', res')

CallMinMax_min_f32 ==
    /\ coll.kind = "MinMax_f32"
    /\ op' = "MinMax::min"
    /\ \E r \in f32_min(coll.items[1], coll.items[2]) : res' = Ret(r)
    /\ UNCHANGED <<coll, overflow_checks>>
    /\ first' = Remember(op', res')

CallMinMax_max_f32 ==
    /\ coll.kind = "MinMax_f32"
    /\ op' = "MinMax::max"
    /\ \E r \in f32_max(coll.items[1], coll.items[2]) : res' = Ret(r)
    /\ UNCHANGED <<coll, overflow_checks>>
    /\ first' = Remember(op', res')

\* the methods of the two statistics traits
NextStatistics ==
    \/ CallStats_sum
    \/ CallStats_count
    \/ CallStats_panicking_count
    \/ CallStats_mean
    \/ CallStats_checked_mean
    \/ CallStats_variance
    \/ CallStats_checked_variance
    \/ CallStats_std_dev
    \/ CallFrequencyStats_count
    \/ CallFrequencyStats_non_zero_count
    \/ CallFrequencyStats_non_zero_count_into_item
    \/ CallFrequencyStats_sum
    \/ CallFrequencyStats_mean
    \/ CallFrequencyStats_variance
    \/ CallFrequencyStats_std_dev
    \/ CallFrequencyStats_min
    \/ CallFrequencyStats_max
    \/ CallFrequencyStats_range
    \/ CallFrequencyStats_mode

Next ==
    \/ NextStatistics
    \/ CallMinMax_min
    \/ CallMinMax_max
    \/ CallMinMax_min_f32
    \/ CallMinMax_max_f32

Spec == Init /\ [][Next]_vars

\* calls of the statistics, in any order and any number, with the history
\* of the first call kept
SpecReplay == InitReplay /\ [][NextStatistics]_vars

(* ------------------- what the claims are stated with ------------------- *)
\* These definitions do not model code: they say, without the loops of the
\* source, what a result is compared with.

xs == coll.items
fs == coll.items
IsStats == coll.kind = "Stats"
IsFreq == coll.kind = "FrequencyStats"

RECURSIVE Sigma(_, _)
\* f[1] + ... + f[n] over the integers
Sigma(f, n) == IF n = 0 THEN 0 ELSE Sigma(f, n - 1) + f[n]

\* the total weight: how many occurrences the pairs stand for
MaxCount == IF MaxFreq > ItemMax + 1 THEN MaxFreq ELSE ItemMax + 1
TotalWeight ==
    Cardinality({o \in (1 .. Len(fs)) \X (1 .. MaxCount) : o[2] <= Freq(fs[o[1]])})

Representable(n) == n \in 0 .. ItemMax
\* the positions whose occurrence count T cannot hold
BadCounts == {i \in 1 .. Len(fs) : ~Representable(Freq(fs[i]))}
FirstBad == CHOOSE i \in BadCounts : \A j \in BadCounts : i <= j
\* the pairs read before a conversion fails
GoodPrefix == IF BadCounts = {} THEN Len(fs) ELSE FirstBad - 1

\* value * count of pair i, and the sum of the first n of them, in Z
Product(i) == Val(fs[i]) * Freq(fs[i])
WeightedSum(n) == Sigma([i \in 1 .. n |-> Product(i)], n)
\* some product or partial sum of the first n pairs does not fit in T
SumOverflows(n) ==
    \E j \in 1 .. n : Product(j) \notin Item \/ WeightedSum(j) \notin Item

\* the mean of a collection whose counts and total weight T can hold
MeanValue == TruncDiv(Wrap(WeightedSum(Len(fs))), TotalWeight)
Dev(i) == Val(fs[i]) - MeanValue
SqDev(i) == Dev(i) * Dev(i) * Freq(fs[i])
SqDevSum(n) == Sigma([i \in 1 .. n |-> SqDev(i)], n)
VarOverflows ==
    \E j \in 1 .. Len(fs) :
        \/ Dev(j) \notin Item
        \/ Dev(j) * Dev(j) \notin Item
        \/ SqDev(j) \notin Item
        \/ SqDevSum(j) \notin Item

PlainSum(n) == Sigma([i \in 1 .. n |-> xs[i]], n)
PlainSumOverflows == \E j \in 1 .. Len(xs) : PlainSum(j) \notin Item

\* T's own arithmetic unwound the call
OverflowPanic(r) == r.tag = "Panic" /\ r.err \in {MsgAdd, MsgSub, MsgMul}

(* ------------------------------- claims -------------------------------- *)

PanickingOps == {"Stats::mean", "Stats::variance", "Stats::std_dev"}
CheckedOps == {"Stats::checked_mean", "Stats::checked_variance"}
CountUnfit == Len(xs) > ItemMax

\* C1, as stated: Stats::mean, variance and std_dev never panic; they return
\* EmptyCollection on an empty sequence and CouldNotConvert{Usize, Item} when
\* the element count does not fit in the element type.
C1_AsStated ==
    (IsStats /\ op \in PanickingOps) =>
        /\ Len(xs) = 0 => res = EmptyCollection
        /\ CountUnfit => res = CouldNotConvert("Usize", "Item")

\* C1, amended: for an integer element type Stats::mean, variance and
\* std_dev return the bare element and panic in both cases: with a division
\* by zero on an empty sequence, and in panicking_count ("Could not convert
\* usize to Self::Item") when the element count does not fit, unless the sum
\* overflowed first in a build with overflow checks.  They never return a
\* StatsError.  Only checked_mean and checked_variance report the two cases
\* without panicking, as None.
C1_PlainStatsPanic ==
    /\ (IsStats /\ op \in PanickingOps) =>
        /\ res.tag \in {"Ret", "Panic"}
        /\ Len(xs) = 0 => res = Panic(MsgDivZero)
        /\ CountUnfit =>
              \/ res = Panic(MsgCount)
              \/ overflow_checks /\ PlainSumOverflows /\ res = Panic(MsgAdd)
    /\ (IsStats /\ op \in CheckedOps /\ (Len(xs) = 0 \/ CountUnfit)) => res = None

C1_Witness ==
    /\ IsStats /\ op = "Stats::std_dev"
    /\ CountUnfit
    /\ res = Panic(MsgCount)

\* the last position of fs that carries the greatest occurrence count
LastMax ==
    CHOOSE i \in 1 .. Len(fs) :
        /\ \A j \in 1 .. Len(fs) : Freq(fs[j]) <= Freq(fs[i])
        /\ \A j \in (i + 1) .. Len(fs) : Freq(fs[j]) < Freq(fs[i])

\* C2: on a pair sequence of non-zero total weight, FrequencyStats::mode
\* returns Ok of the value of the last pair, in iteration order, whose
\* occurrence count is the greatest of the sequence.
C2_ModeLastMax ==
    (IsFreq /\ op = "FrequencyStats::mode" /\ TotalWeight > 0) =>
        res = Ok(Val(fs[LastMax]))

\* two pairs tie for the greatest count with different values, and the
\* value returned is the later one, which is not the sentinel's zero
C2_Witness ==
    /\ IsFreq /\ op = "FrequencyStats::mode"
    /\ Len(fs) = 2
    /\ Freq(fs[1]) = Freq(fs[2]) /\ Freq(fs[1]) > 0
    /\ Val(fs[1]) # Val(fs[2]) /\ Val(fs[2]) # 0
    /\ res = Ok(Val(fs[2]))

AllZeroCounts == Len(fs) > 0 /\ \A i \in 1 .. Len(fs) : Freq(fs[i]) = 0

\* C3, as stated: on a non-empty pair sequence whose occurrence counts are all
\* zero, mode does not fail with EmptyCollection but returns Ok of the value
\* of the last pair scanned.
C3_AsStated ==
    (IsFreq /\ op = "FrequencyStats::mode" /\ AllZeroCounts) =>
        res = Ok(Val(fs[Len(fs)]))

\* C3, amended: on a non-empty pair sequence whose occurrence counts are all
\* zero, mode is treated as empty: it fails with EmptyCollection, because the
\* emptiness check is on the total weight and returns before the scan.
C3_ModeZeroWeightIsEmpty ==
    (IsFreq /\ op = "FrequencyStats::mode" /\ AllZeroCounts) =>
        res = EmptyCollection

C3_Witness ==
    /\ IsFreq /\ op = "FrequencyStats::mode"
    /\ Len(fs) = 2 /\ AllZeroCounts
    /\ Val(fs[2]) # 0
    /\ res = EmptyCollection

\* C4: FrequencyStats::sum returns Ok(S), S the left-to-right sum of
\* value * count in the element type (Ok(0) on an empty sequence); it returns
\* CouldNotConvert{Usize, Item} if and only if some occurrence count does not
\* fit in the element type, raised at the first such pair; it never returns
\* EmptyCollection.  The one other outcome is the element type's own: its
\* `*` or `+` overflowing, in a build with overflow checks, on a pair read
\* before any conversion failed, which unwinds the call.
C4_SumWeighted ==
    (IsFreq /\ op = "FrequencyStats::sum") =>
        /\ res # EmptyCollection
        /\ res.tag \in {"Ok", "Err", "Panic"}
        /\ res.tag = "Panic" <=> (overflow_checks /\ SumOverflows(GoodPrefix))
        /\ res.tag = "Panic" => OverflowPanic(res)
        /\ res.tag = "Err" => res = CouldNotConvert("Usize", "Item")
        /\ res.tag # "Panic" => (res.tag = "Err" <=> BadCounts # {})
        /\ res.tag = "Ok" => res.val = Wrap(WeightedSum(Len(fs)))
        /\ Len(fs) = 0 => res = Ok(0)

\* one occurrence of 1 and two of another value, as in test_sum: the sum
\* counts the second value twice
C4_Witness ==
    /\ IsFreq /\ op = "FrequencyStats::sum"
    /\ Len(fs) = 2
    /\ fs[1] = <<1, 1>> /\ Freq(fs[2]) = 2 /\ Val(fs[2]) # 0
    /\ ~SumOverflows(Len(fs))
    /\ res = Ok(1 + 2 * Val(fs[2]))

\* C5: FrequencyStats::mean returns EmptyCollection exactly when the total
\* weight is zero, CouldNotConvert{Usize, Item} when a pair's count or the
\* non-zero total weight does not fit in the element type, and otherwise
\* Ok(sum / total weight) with the quotient truncated toward zero; it never
\* divides by zero.  (As for sum, an overflow of the element type's own
\* arithmetic in a build with overflow checks unwinds the call instead.)
C5_MeanWeighted ==
    (IsFreq /\ op = "FrequencyStats::mean") =>
        /\ res = EmptyCollection <=> TotalWeight = 0
        /\ res.tag \in {"Ok", "Err", "Panic"}
        /\ res.tag = "Panic" <=> (overflow_checks /\ SumOverflows(GoodPrefix))
        /\ res.tag = "Panic" => OverflowPanic(res)
        /\ (res.tag = "Err" /\ res # EmptyCollection) =>
              res = CouldNotConvert("Usize", "Item")
        /\ (res.tag # "Panic" /\ TotalWeight > 0) =>
              IF BadCounts # {} \/ ~Representable(TotalWeight)
              THEN res = CouldNotConvert("Usize", "Item")
              ELSE res = Ok(MeanValue)

\* a negative sum that the total weight does not divide: truncation toward
\* zero and rounding down differ
C5_Witness ==
    /\ IsFreq /\ op = "FrequencyStats::mean"
    /\ res.tag = "Ok"
    /\ ~SumOverflows(Len(fs))
    /\ WeightedSum(Len(fs)) < 0
    /\ WeightedSum(Len(fs)) % TotalWeight # 0
    /\ res.val * TotalWeight > WeightedSum(Len(fs))

\* C6: FrequencyStats::variance first computes the mean m and returns mean's
\* failure unchanged; otherwise it returns Ok of the sum over the pairs of
\* (value - m) * (value - m) * count, divided by the total weight (not by the
\* total weight minus one), m and the quotient truncated toward zero.  (An
\* overflow of the element type's own arithmetic in a build with overflow
\* checks unwinds the call instead.)
C6_VariancePopulation ==
    (IsFreq /\ op = "FrequencyStats::variance") =>
        IF FrequencyStats_mean(fs).tag # "Ok"
        THEN res = FrequencyStats_mean(fs)
        ELSE /\ res.tag \in {"Ok", "Panic"}
             /\ res.tag = "Panic" <=> (overflow_checks /\ VarOverflows)
             /\ res.tag = "Panic" => OverflowPanic(res)
             /\ res.tag = "Ok" =>
                   res.val = TruncDiv(Wrap(SqDevSum(Len(fs))), TotalWeight)

\* two occurrences around their mean: the population variance is 1, the
\* sample variance would be 2
C6_Witness ==
    /\ IsFreq /\ op = "FrequencyStats::variance"
    /\ TotalWeight = 2
    /\ SqDevSum(Len(fs)) = 2
    /\ res = Ok(1)

\* C7: FrequencyStats::non_zero_count returns EmptyCollection exactly when
\* the total weight is zero and otherwise Ok(total weight);
\* non_zero_count_into_item returns that EmptyCollection first, otherwise
\* CouldNotConvert{Usize, Item} exactly when the total weight does not fit in
\* the element type, otherwise Ok(total weight).
C7_NonZeroCount ==
    /\ (IsFreq /\ op = "FrequencyStats::non_zero_count") =>
          res = IF TotalWeight = 0 THEN EmptyCollection ELSE Ok(TotalWeight)
    /\ (IsFreq /\ op = "FrequencyStats::non_zero_count_into_item") =>
          res = IF TotalWeight = 0 THEN EmptyCollection
                ELSE IF ~Representable(TotalWeight)
                     THEN CouldNotConvert("Usize", "Item")
                     ELSE Ok(TotalWeight)

\* every count fits in the element type and their sum does not
C7_Witness ==
    /\ IsFreq /\ op = "FrequencyStats::non_zero_count_into_item"
    /\ BadCounts = {}
    /\ TotalWeight = ItemMax + 1
    /\ res = CouldNotConvert("Usize", "Item")

Values == {Val(fs[i]) : i \in 1 .. Len(fs)}
Least == CHOOSE v \in Values : \A w \in Values : v <= w
Greatest == CHOOSE v \in Values : \A w \in Values : w <= v

\* C8: FrequencyStats::min, max and range depend on the values of the pairs
\* only, a pair of count zero included: min and max return the least and the
\* greatest value over all pairs, range returns max - min in the element
\* type, and each fails with EmptyCollection if and only if the pair sequence
\* is empty, whatever the total weight.  (The `-` of range overflowing in a
\* build with overflow checks unwinds the call instead.)
C8_ExtremesIgnoreCounts ==
    /\ (IsFreq /\ op = "FrequencyStats::min") =>
          res = IF Len(fs) = 0 THEN EmptyCollection ELSE Ok(Least)
    /\ (IsFreq /\ op = "FrequencyStats::max") =>
          res = IF Len(fs) = 0 THEN EmptyCollection ELSE Ok(Greatest)
    /\ (IsFreq /\ op = "FrequencyStats::range") =>
          IF Len(fs) = 0 THEN res = EmptyCollection
          ELSE IF overflow_checks /\ Greatest - Least \notin Item
               THEN res = Panic(MsgSub)
               ELSE res = Ok(Wrap(Greatest - Least))

\* the least value belongs to a pair of count zero only
C8_Witness ==
    /\ IsFreq /\ op = "FrequencyStats::min"
    /\ Len(fs) = 2
    /\ Freq(fs[1]) = 0 /\ Freq(fs[2]) > 0
    /\ Val(fs[1]) < Val(fs[2])
    /\ res = Ok(Val(fs[1]))

\* C9: FrequencyStats::count returns the sum of the occurrence counts, not
\* the number of pairs, duplicate values and zero counts included; it never
\* fails and returns 0 on an empty sequence.
C9_CountIsTotalWeight ==
    (IsFreq /\ op = "FrequencyStats::count") =>
        /\ res = Ret(TotalWeight)
        /\ Len(fs) = 0 => res = Ret(0)

\* a value listed twice, once with count zero: the count is neither the
\* number of pairs nor the number of values
C9_Witness ==
    /\ IsFreq /\ op = "FrequencyStats::count"
    /\ Len(fs) = 2
    /\ Val(fs[1]) = Val(fs[2])
    /\ Freq(fs[1]) = 0
    /\ res.tag = "Ret" /\ res.val > 2

\* C10: Stats::checked_mean returns None exactly when the sequence is empty
\* or its length does not fit in the element type, without panicking there,
\* and otherwise Some(sum / count), count the number of elements and the
\* quotient truncated toward zero.  (The sum overflowing in a build with
\* overflow checks unwinds the call instead.)
C10_CheckedMean ==
    (IsStats /\ op = "Stats::checked_mean") =>
        /\ res = None <=> (Len(xs) = 0 \/ CountUnfit)
        /\ res.tag \in {"None", "Some", "Panic"}
        /\ res.tag = "Panic" <=>
              (Len(xs) \in 1 .. ItemMax /\ overflow_checks /\ PlainSumOverflows)
        /\ res.tag = "Panic" => res = Panic(MsgAdd)
        /\ res.tag = "Some" =>
              res.val = TruncDiv(Wrap(PlainSum(Len(xs))), Len(xs))

\* a length the element type cannot hold: None, where mean would panic
C10_Witness ==
    /\ IsStats /\ op = "Stats::checked_mean"
    /\ CountUnfit
    /\ res = None

IsMinMaxInt == coll.kind = "MinMax_int"
IsMinMaxFloat == coll.kind = "MinMax_f32"
Lhs == coll.items[1]
Rhs == coll.items[2]

\* C11: MinMax::min(a, b) and MinMax::max(a, b) at a floating-point type
\* return the non-NaN operand when exactly one operand is NaN, in either
\* position, the smaller / larger operand when neither is NaN, and a NaN only
\* when both are NaN; at an integer type they return the smaller / larger
\* operand of the total order.
C11_MinMaxNaN ==
    /\ (IsMinMaxFloat /\ op \in {"MinMax::min", "MinMax::max"}) =>
          /\ res.tag = "Ret" /\ res.val \in {Lhs, Rhs}
          /\ (is_nan(Lhs) /\ ~is_nan(Rhs)) => res.val = Rhs
          /\ (is_nan(Rhs) /\ ~is_nan(Lhs)) => res.val = Lhs
          /\ is_nan(res.val) <=> (is_nan(Lhs) /\ is_nan(Rhs))
          /\ (~is_nan(Lhs) /\ ~is_nan(Rhs) /\ op = "MinMax::min") =>
                Rank(res.val) <= Rank(Lhs) /\ Rank(res.val) <= Rank(Rhs)
          /\ (~is_nan(Lhs) /\ ~is_nan(Rhs) /\ op = "MinMax::max") =>
                Rank(res.val) >= Rank(Lhs) /\ Rank(res.val) >= Rank(Rhs)
    /\ (IsMinMaxInt /\ op = "MinMax::min") =>
          res.tag = "Ret" /\ res.val \in {Lhs, Rhs} /\ res.val <= Lhs /\ res.val <= Rhs
    /\ (IsMinMaxInt /\ op = "MinMax::max") =>
          res.tag = "Ret" /\ res.val \in {Lhs, Rhs} /\ res.val >= Lhs /\ res.val >= Rhs

\* test_max_f32_nan: max(1.0, NaN) is 1.0, though NaN is the second operand
C11_Witness ==
    /\ IsMinMaxFloat /\ op = "MinMax::max"
    /\ Lhs = [k |-> "num", v |-> 1] /\ is_nan(Rhs)
    /\ res = Ret(Lhs)

RECURSIVE Expand(_)
Expand(ps) ==
    IF ps = <<>> THEN <<>>
    ELSE Repeat(Val(Head(ps)), Freq(Head(ps))) \o Expand(Tail(ps))

\* a pair sequence of non-zero total weight whose counts and total weight
\* the element type can hold
Expandable ==
    IsFreq /\ TotalWeight > 0 /\ BadCounts = {} /\ Representable(TotalWeight)

\* the weighted result r is Ok of the value of the plain result p, unless
\* the element type's arithmetic overflowed and unwound one of the two calls
AgreeUnlessOverflow(r, p) ==
    (r.tag # "Panic" /\ p.tag # "Panic") =>
        r.tag = "Ok" /\ p.tag = "Ret" /\ r.val = p.val

\* C13: on a pair sequence of non-zero total weight whose counts and total
\* weight fit in the element type, and without an overflow of the element
\* type, FrequencyStats::count, sum, mean and variance return the value that
\* Stats::count, sum, mean and variance return on the sequence that repeats
\* each pair's value count times in order.
C13_WeightedAgreesWithExpansion ==
    Expandable =>
        /\ op = "FrequencyStats::count" => res = Stats_count(Expand(fs))
        /\ op = "FrequencyStats::sum" =>
              AgreeUnlessOverflow(res, Stats_sum(Expand(fs)))
        /\ op = "FrequencyStats::mean" =>
              AgreeUnlessOverflow(res, Stats_mean(Expand(fs)))
        /\ op = "FrequencyStats::variance" =>
              AgreeUnlessOverflow(res, Stats_variance(Expand(fs)))

\* two occurrences of one value and one of another: both variances are 1
C13_Witness ==
    /\ Expandable /\ op = "FrequencyStats::variance"
    /\ Len(fs) = 2 /\ Freq(fs[1]) = 2 /\ Freq(fs[2]) = 1
    /\ Len(Expand(fs)) = 3
    /\ res = Ok(1)
    /\ Stats_variance(Expand(fs)) = Ret(1)

====
